---------------------------- MODULE Spec2Model ----------------------------
(***************************************************************************)
(* A model of scanner.py: the WebScanner class.  One scan() coroutine      *)
(* establishes the baseline (detect_index_and_404), then runs one          *)
(* limited_check task per wordlist entry under an asyncio.Semaphore, and   *)
(* prints a summary.  asyncio is cooperative: a step of the model is the   *)
(* code that runs between two awaits (a request completing, up to the next *)
(* request being issued or the coroutine returning).                       *)
(*                                                                         *)
(* A text is modelled by the sequence of its whitespace-delimited words    *)
(* (what str.split() returns); an optional value is <<>> (None) or <<v>>.  *)
(***************************************************************************)
EXTENDS Integers, Sequences, FiniteSets, TLC

(* ------------------------------ bounds --------------------------------- *)
MaxWords == 2
MaxRetry == 1
MaxThreads == 2
MaxTokens == 5

(* ------------------------- optional values ----------------------------- *)
None == <<>>
Some(v) == <<v>>
Val(o) == o[1]

(* ------------------------------ texts ---------------------------------- *)
\* str.lower() on one word
LowerWord(w) ==
  CASE w = "Home" -> "home"
    [] w = "Page" -> "page"
    [] w = "Not" -> "not"
    [] w = "Found" -> "found"
    [] OTHER -> w

\* response.text.lower()
Lower(text) == [i \in DOMAIN text |-> LowerWord(text[i])]

\* set(text.split())
Words(text) == {text[i] : i \in DOMAIN text}

(* ------------------------------- URLs ---------------------------------- *)
\* A URL on the target host is the sequence of its path segments; a
\* trailing slash is a last, empty segment.  A candidate path is a sequence
\* of segments, a leading "/" segment marking an absolute path.
RECURSIVE RStrip(_)
RStrip(u) ==
  IF u # <<>> /\ u[Len(u)] = "" THEN RStrip(SubSeq(u, 1, Len(u) - 1)) ELSE u

\* urllib.parse.urljoin(base, path) for a base without trailing slash
UrlJoin(base, path) ==
  IF path = <<>> THEN base
  ELSE IF Head(path) = "/" THEN Tail(path)
  ELSE IF base = <<>> THEN path
  ELSE SubSeq(base, 1, Len(base) - 1) \o path

\* --url: http://host/app/
RawUrls == { <<"app", "">> }

\* The lines of the wordlist file: admin, /admin, .env, admin, /admin, ...
Line(i) ==
  CASE i % 3 = 1 -> <<"admin">>
    [] i % 3 = 2 -> <<"/", "admin">>
    [] OTHER -> <<".env">>

\* load_wordlist: the non-blank, stripped lines of the file, for files of
\* 0..MaxWords lines
Wordlists == { [i \in 1..n |-> Line(i)] : n \in 0..MaxWords }

(* --------------------------- the transport ----------------------------- *)
\* What one awaited client.get() can end in: a response, a transport
\* failure (httpx.RequestError), or another exception (httpx.InvalidURL...).
Responses ==
  { [kind |-> "response", status |-> 200, text |-> <<"Home", "Page">>],
    [kind |-> "response", status |-> 200, text |-> <<"archive", "contents", "xyz">>],
    [kind |-> "response", status |-> 200, text |-> <<"Not", "Found", "error">>],
    [kind |-> "response", status |-> 204, text |-> <<>>],
    [kind |-> "response", status |-> 301, text |-> <<>>],
    [kind |-> "response", status |-> 404, text |-> <<"Not", "Found", "error">>],
    [kind |-> "response", status |-> 500, text |-> <<>>] }

RequestError == [kind |-> "RequestError", status |-> 0, text |-> <<>>]
OtherError == [kind |-> "Exception", status |-> 0, text |-> <<>>]

GetOutcomes == Responses \cup {RequestError, OtherError}

\* What one awaited client.post() to the webhook can end in.
PostOutcomes ==
  { [kind |-> "response", status |-> 204, text |-> <<>>],
    [kind |-> "response", status |-> 500, text |-> <<>>],
    RequestError, OtherError }

(* ------------------------ Similarity Classifier ------------------------ *)
\* Python truthiness of an optional text: None and "" are false
Truthy(c) == c # None /\ Val(c) # <<>>

\* A variant of similarity that divides by the size of the first text's word
\* set instead of the union's
similarityOverFirst(text1, text2) ==
  LET words1 == Words(text1)
      words2 == Words(text2)
  IN IF words1 # {}
       THEN [num |-> Cardinality(words1 \cap words2),
             den |-> Cardinality(words1)]
       ELSE [num |-> 0, den |-> 1]

\* similarity(text1, text2): the ratio len(intersection) / len(union) as a
\* fraction; 0 when the union is empty
similarity(text1, text2) ==
  LET words1 == Words(text1)
      words2 == Words(text2)
      intersection == words1 \cap words2
      union == words1 \cup words2
  IN IF union # {} THEN [num |-> Cardinality(intersection), den |-> Cardinality(union)]
     ELSE [num |-> 0, den |-> 1]

\* A variant of Above08 that also accepts a similarity of exactly 0.8
Above08OrEqual(r) == 10 * r.num >= 8 * r.den

\* ratio > 0.8 (lines 76, 78)
Above08(r) == 10 * r.num > 8 * r.den

\* is_similar_to_index_or_404(content), reading the two baselines given
IsSimilarTo(content, index, not_found) ==
  IF Truthy(index) /\ Above08(similarity(content, Val(index))) THEN TRUE
  ELSE IF Truthy(not_found) /\ Above08(similarity(content, Val(not_found))) THEN TRUE
  ELSE FALSE

\* A variant of IsSuccess that lets redirects through
IsSuccessBelow400(status) ==
  status # None /\ Val(status) # 0 /\ 200 <= Val(status) /\ Val(status) < 400

\* the condition of line 93: status and 200 <= status < 300
IsSuccess(status) == status # None /\ Val(status) # 0 /\ 200 <= Val(status) /\ Val(status) < 300

\* A variant of IndexOk that accepts every success status
IndexOkAny2xx(status) == status # None /\ 200 <= Val(status) /\ Val(status) < 300

\* the condition of line 56: status == 200
IndexOk(status) == status = Some(200)

\* A variant of Is404 that takes any error status for a not-found answer
Is404OrAbove(status) == status # None /\ Val(status) >= 404

\* the condition of lines 63 and 67: status == 404
Is404(status) == status = Some(404)

(* ------------------------------- state --------------------------------- *)
VARIABLES
  url,                \* self.url
  wordlist,           \* self.wordlist
  webhook_url,        \* self.webhook_url: None or Some("hook")
  max_retry,          \* self.max_retry
  threads,            \* self.threads
  index_content,      \* self.index_content
  not_found_content,  \* self.not_found_content
  scan_state,         \* where scan() is
  bpc,                \* where detect_index_and_404 is
  battempt,           \* `attempt` of the baseline's get_page_content call in progress
  brequests,          \* requests issued by the baseline fetch in progress, or by
                      \* the one that ended the scan
  bfailures,          \* how many of them ended in httpx.RequestError
  bhttp,              \* status of the HTTP response that fetch received, if any
  root_result,        \* None until the root fetch returns, then Some(its FetchResult)
  nf_fetches,         \* number of nonexistent-path fetches started
  nf_seen,            \* per nonexistent-path fetch that returned: Some(text of
                      \* the response) if the server answered 404, else None
  bare_none,          \* a get_page_content call ran off its loop and returned
                      \* None instead of a (status, content) pair
  check,              \* the last direct call of similarity or
                      \* is_similar_to_index_or_404 and its result, if any
  semaphore,          \* None before creation, else Some(value)
  task,               \* one record per limited_check task
  found_paths,        \* found_paths of scan() (line 111), empty until then
  summary             \* the closing line scan() printed (with the total, if
                      \* any), or the failure notice; <<>> if none yet

vars == << url, wordlist, webhook_url, max_retry, threads, index_content,
           not_found_content, scan_state, bpc, battempt, brequests,
           bfailures, bhttp, root_result, nf_fetches, nf_seen, bare_none,
           check, semaphore, task, found_paths, summary >>

config == << url, wordlist, webhook_url, max_retry, threads >>

\* WebScanner.__init__, and main's argparse values
Init ==
  /\ url \in { RStrip(r) : r \in RawUrls }
  /\ wordlist \in Wordlists
  /\ webhook_url \in { None, Some("hook") }
  /\ max_retry \in -1..MaxRetry
  /\ threads \in -1..MaxThreads
  /\ index_content = None
  /\ not_found_content = None
  /\ scan_state = "Idle"
  /\ bpc = "none"
  /\ battempt = 0
  /\ brequests = 0
  /\ bfailures = 0
  /\ bhttp = None
  /\ root_result = None
  /\ nf_fetches = 0
  /\ nf_seen = <<>>
  /\ bare_none = FALSE
  /\ check = None
  /\ semaphore = None
  /\ task = <<>>
  /\ found_paths = <<>>
  /\ summary = <<>>

(* ----------------------------- the Prober ------------------------------ *)
\* A variant of GetStep that gives up one attempt early
GetStepGivesUpEarly(attempt, outcome) ==
  IF outcome.kind = "response"
    THEN [next |-> "return", status |-> Some(outcome.status),
          content |-> Some(Lower(outcome.text))]
  ELSE IF outcome.kind = "RequestError"
    THEN IF attempt < max_retry - 1
           THEN [next |-> "retry", status |-> None, content |-> None]
           ELSE [next |-> "return", status |-> None, content |-> None]
  ELSE [next |-> "raise", status |-> None, content |-> None]

\* A variant of GetStep that treats a 5xx response as a failure to retry
GetStepRetries5xx(attempt, outcome) ==
  IF outcome.kind = "response" /\ outcome.status < 500
    THEN [next |-> "return", status |-> Some(outcome.status),
          content |-> Some(Lower(outcome.text))]
  ELSE IF outcome.kind \in {"RequestError", "response"}
    THEN IF attempt < max_retry
           THEN [next |-> "retry", status |-> None, content |-> None]
           ELSE [next |-> "return", status |-> None, content |-> None]
  ELSE [next |-> "raise", status |-> None, content |-> None]

\* One iteration of the loop of get_page_content (lines 43-52): what the
\* attempt numbered `attempt` does when its request ends in `outcome`.
GetStep(attempt, outcome) ==
  IF outcome.kind = "response"
    THEN [next |-> "return", status |-> Some(outcome.status),
          content |-> Some(Lower(outcome.text))]
  ELSE IF outcome.kind = "RequestError"
    THEN IF attempt < max_retry
           THEN [next |-> "retry", status |-> None, content |-> None]
           ELSE [next |-> "return", status |-> None, content |-> None]
  ELSE [next |-> "raise", status |-> None, content |-> None]

\* range(self.max_retry + 1) is empty for a negative max_retry: the loop body
\* never runs, get_page_content returns a bare None and the caller's
\* `status, content = ...` raises TypeError.
LoopRuns == max_retry + 1 > 0

(* ------------------------ the Scan Coordinator ------------------------- *)
NewTask ==
  [pc |-> "queued",       \* queued (waiting for the semaphore), fetch, notify, done
   attempt |-> 0,         \* `attempt` of the get_page_content call in progress
   requests |-> 0,        \* GET requests issued by the fetch in progress, kept
                          \* when it ends with status None
   failures |-> 0,        \* how many of them ended in httpx.RequestError
   http |-> None,         \* status of the HTTP response received, if any
   status |-> None,       \* what get_page_content returned to check_path
   content |-> None,
   outcome |-> "none",    \* the branch of lines 93-102 taken
   raised |-> FALSE,      \* line 103 caught an exception
   notifies |-> 0,        \* send_discord_webhook calls
   notified |-> "none"]   \* how the webhook post ended

\* scan()'s `except Exception` (lines 127-128)
ScanFailed ==
  /\ scan_state' = "Failed"
  /\ summary' = <<"Error during scan">>

\* detect_index_and_404 returned True: lines 111-121, up to the await of
\* gather.  asyncio.Semaphore(value) raises ValueError for value < 0.
Dispatch ==
  IF threads < 0
    THEN /\ ScanFailed
         /\ UNCHANGED <<semaphore, task>>
    ELSE /\ scan_state' = "Probing"
         /\ semaphore' = Some(threads)
         /\ task' = [i \in DOMAIN wordlist |-> NewTask]
         /\ UNCHANGED summary

\* A variant of Abort in which scan() ignores the result of
\* detect_index_and_404 and goes on to lines 111-121
AbortIgnored ==
  /\ summary' = <<"Failed to get index page.">>
  /\ IF threads < 0
       THEN /\ scan_state' = "Failed"
            /\ UNCHANGED <<semaphore, task>>
       ELSE /\ scan_state' = "Probing"
            /\ semaphore' = Some(threads)
            /\ task' = [i \in DOMAIN wordlist |-> NewTask]

\* detect_index_and_404 returned False (lines 59-60), scan() returns (109)
Abort ==
  /\ scan_state' = "Aborted"
  /\ summary' = <<"Failed to get index page.">>
  /\ UNCHANGED <<semaphore, task>>

\* A variant of ScanStart that does not wait for the baseline
ScanStartSkipsBaseline ==
  /\ scan_state = "Idle"
  /\ Dispatch
  /\ UNCHANGED <<config, check, nf_seen, bare_none, index_content, not_found_content, bpc, battempt,
                 brequests, bfailures, bhttp, root_result, nf_fetches,
                 found_paths>>

\* scan() calls detect_index_and_404, which calls get_page_content('')
ScanStart ==
  /\ scan_state = "Idle"
  /\ IF LoopRuns
       THEN /\ scan_state' = "Baseline"
            /\ bpc' = "root"
            /\ battempt' = 0
            /\ brequests' = 1
            /\ UNCHANGED <<summary, bare_none>>
       ELSE /\ bare_none' = TRUE
            /\ ScanFailed
            /\ UNCHANGED <<bpc, battempt, brequests>>
  /\ UNCHANGED <<config, check, nf_seen, index_content, not_found_content, root_result,
                 bfailures, bhttp, nf_fetches, semaphore, task, found_paths>>

\* What the transport did to the baseline's request
BaselineObserve(o) ==
  /\ bfailures' = IF o.kind = "RequestError" THEN bfailures + 1 ELSE bfailures
  /\ bhttp' = IF o.kind = "response" THEN Some(o.status) ELSE bhttp

\* detect_index_and_404 returns True: its fetches are over
BaselineDone ==
  /\ battempt' = 0
  /\ brequests' = 0
  /\ bfailures' = 0
  /\ bhttp' = None

\* detect_index_and_404 starts the fetch of a nonexistent path
StartNotFoundFetch(which) ==
  /\ bpc' = which
  /\ battempt' = 0
  /\ brequests' = 1
  /\ bfailures' = 0
  /\ bhttp' = None
  /\ nf_fetches' = nf_fetches + 1

\* The request of the root fetch completes (lines 55-62)
RootResponse(o) ==
  /\ scan_state = "Baseline"
  /\ bpc = "root"
  /\ LET r == GetStep(battempt, o) IN
       CASE r.next = "retry" ->
              /\ battempt' = battempt + 1
              /\ brequests' = brequests + 1
              /\ BaselineObserve(o)
              /\ UNCHANGED <<scan_state, bpc, root_result, index_content,
                             nf_fetches, summary, semaphore, task>>
         [] r.next = "raise" ->
              /\ ScanFailed
              /\ UNCHANGED <<bpc, battempt, brequests, bfailures, bhttp,
                             root_result, index_content, nf_fetches,
                             semaphore, task>>
         [] OTHER ->
              /\ root_result' = Some([status |-> r.status, content |-> r.content])
              /\ IF IndexOk(r.status)
                   THEN /\ index_content' = r.content
                        /\ StartNotFoundFetch("nf1")
                        /\ UNCHANGED <<scan_state, summary, semaphore, task>>
                   ELSE /\ Abort
                        /\ BaselineObserve(o)
                        /\ UNCHANGED <<bpc, battempt, brequests,
                                       index_content, nf_fetches>>
  /\ UNCHANGED <<config, check, nf_seen, bare_none, not_found_content, found_paths>>

\* The request of a nonexistent-path fetch completes (lines 62-73), and
\* when detect_index_and_404 returns True, scan() goes on to line 121.
\* What the server answered to a nonexistent-path request that returned:
\* the text of its 404 response, or nothing when it answered anything else or
\* every attempt failed in transport.
Answered404(o) ==
  IF o.kind = "response" /\ o.status = 404 THEN Some(o.text) ELSE None

NotFoundResponse(o) ==
  /\ scan_state = "Baseline"
  /\ bpc \in {"nf1", "nf2"}
  /\ LET r == GetStep(battempt, o) IN
       CASE r.next = "retry" ->
              /\ battempt' = battempt + 1
              /\ brequests' = brequests + 1
              /\ BaselineObserve(o)
              /\ UNCHANGED <<scan_state, bpc, not_found_content, nf_fetches,
                             nf_seen, semaphore, task, summary>>
         [] r.next = "raise" ->
              /\ ScanFailed
              /\ UNCHANGED <<bpc, battempt, brequests, bfailures, bhttp,
                             not_found_content, nf_fetches, nf_seen, semaphore,
                             task>>
         [] OTHER ->
              /\ nf_seen' = Append(nf_seen, Answered404(o))
              /\ IF Is404(r.status)
                   THEN /\ not_found_content' = r.content
                        /\ bpc' = "done"
                        /\ BaselineDone
                        /\ Dispatch
                        /\ UNCHANGED nf_fetches
                 ELSE IF bpc = "nf1"
                   THEN /\ StartNotFoundFetch("nf2")
                        /\ UNCHANGED <<scan_state, not_found_content,
                                       semaphore, task, summary>>
                 ELSE /\ not_found_content' = None
                      /\ bpc' = "done"
                      /\ BaselineDone
                      /\ Dispatch
                      /\ UNCHANGED nf_fetches
  /\ UNCHANGED <<config, check, bare_none, index_content, root_result, found_paths>>

(* --------------------------- one probe task ---------------------------- *)
Holding(t) == task[t].pc \in {"fetch", "notify"}

\* A variant of CanAcquire without the gate
CanAcquireAlways == TRUE

\* `async with semaphore` (line 114): acquire() returns at once when the
\* value is positive and waits otherwise
CanAcquire == Val(semaphore) > 0

\* What the transport did to task t's request, as the task's record shows it
Observe(rec, o) ==
  IF o.kind = "RequestError" THEN [rec EXCEPT !.failures = @ + 1]
  ELSE IF o.kind = "response" THEN [rec EXCEPT !.http = Some(o.status)]
  ELSE rec

\* limited_check leaves `async with semaphore` (release) and the task ends
Exit(t, rec) ==
  /\ task' = [task EXCEPT ![t] = [rec EXCEPT !.pc = "done"]]
  /\ semaphore' = Some(Val(semaphore) + 1)

\* A variant of CheckPathRaised in which no handler catches the exception:
\* it leaves limited_check, gather raises it and scan() ends at line 128
CheckPathRaisedUncaught(t, rec) ==
  /\ Exit(t, [rec EXCEPT !.raised = TRUE])
  /\ ScanFailed
  /\ UNCHANGED found_paths

\* A variant of CheckPathRaised in which the exception leaves the task without
\* the slot being given back, as with a bare acquire()/release() pair in
\* place of `async with semaphore`
CheckPathRaisedKeepsSlot(t, rec) ==
  /\ task' = [task EXCEPT ![t] = [rec EXCEPT !.pc = "done", !.raised = TRUE]]
  /\ UNCHANGED <<semaphore, scan_state, found_paths, summary>>

\* check_path's `except Exception` (lines 103-104), then limited_check exits
CheckPathRaised(t, rec) ==
  /\ Exit(t, [rec EXCEPT !.raised = TRUE])
  /\ UNCHANGED <<scan_state, found_paths, summary>>

\* A variant of CheckPathGot that also notifies the sink of a 2xx response it
\* skipped as a duplicate of a baseline
CheckPathGotNotifiesSkipped(t, rec, status, content) ==
  LET got == [rec EXCEPT !.status = status, !.content = content,
                         !.attempt = 0,
                         !.requests = IF status = None THEN @ ELSE 0,
                         !.failures = IF status = None THEN @ ELSE 0]
      skip == ~IsSuccess(status) \/
              IsSimilarTo(Val(content), index_content, not_found_content)
      how == IF ~IsSuccess(status)
               THEN IF status # None /\ Val(status) # 0
                      THEN "notfound" ELSE "unresolved"
               ELSE IF skip THEN "skipped" ELSE "found"
  IN
  /\ found_paths' = IF how = "found"
                      THEN Append(found_paths, UrlJoin(url, wordlist[t]))
                      ELSE found_paths
  /\ IF IsSuccess(status) /\ webhook_url # None
       THEN /\ task' = [task EXCEPT ![t] =
                  [got EXCEPT !.outcome = how, !.pc = "notify",
                              !.notifies = @ + 1]]
            /\ UNCHANGED semaphore
       ELSE Exit(t, [got EXCEPT !.outcome = how])

\* check_path after get_page_content returned (lines 93-102)
CheckPathGot(t, rec, status, content) ==
  LET got == [rec EXCEPT !.status = status, !.content = content,
                         !.attempt = 0,
                         !.requests = IF status = None THEN @ ELSE 0,
                         !.failures = IF status = None THEN @ ELSE 0]
  IN
  IF IsSuccess(status)
    THEN IF ~IsSimilarTo(Val(content), index_content, not_found_content)
           THEN /\ found_paths' = Append(found_paths, UrlJoin(url, wordlist[t]))
                /\ IF webhook_url # None
                     THEN /\ task' = [task EXCEPT ![t] =
                                [got EXCEPT !.outcome = "found", !.pc = "notify",
                                            !.notifies = @ + 1]]
                          /\ UNCHANGED semaphore
                     ELSE Exit(t, [got EXCEPT !.outcome = "found"])
           ELSE /\ Exit(t, [got EXCEPT !.outcome = "skipped"])
                /\ UNCHANGED found_paths
  ELSE IF status # None /\ Val(status) # 0
    THEN /\ Exit(t, [got EXCEPT !.outcome = "notfound"])
         /\ UNCHANGED found_paths
  ELSE /\ Exit(t, [got EXCEPT !.outcome = "unresolved"])
       /\ UNCHANGED found_paths

\* limited_check acquires the semaphore and check_path issues its first
\* request (lines 114-116, 91-92, 42-45).  Waiters are served in FIFO order,
\* which is wordlist order, since gather starts the tasks in that order.
TaskAcquire(t) ==
  /\ scan_state = "Probing"
  /\ task[t].pc = "queued"
  /\ \A u \in 1..(t - 1) : task[u].pc # "queued"
  /\ CanAcquire
  /\ IF LoopRuns
       THEN /\ task' = [task EXCEPT ![t].pc = "fetch", ![t].requests = 1]
            /\ semaphore' = Some(Val(semaphore) - 1)
            /\ UNCHANGED bare_none
       ELSE /\ task' = [task EXCEPT ![t].pc = "done", ![t].raised = TRUE]
            /\ bare_none' = TRUE
            /\ UNCHANGED semaphore
  /\ UNCHANGED <<config, check, nf_seen, index_content, not_found_content, scan_state, bpc,
                 battempt, brequests, bfailures, bhttp, root_result,
                 nf_fetches, found_paths, summary>>

\* A variant of TaskResponse in which a probe that is answered 404 stores
\* the body it got as the not-found baseline
TaskResponseLearns404(t, o) ==
  /\ scan_state = "Probing"
  /\ task[t].pc = "fetch"
  /\ LET r == GetStep(task[t].attempt, o)
         rec == Observe(task[t], o)
     IN
       CASE r.next = "retry" ->
              /\ task' = [task EXCEPT ![t] =
                     [rec EXCEPT !.attempt = @ + 1, !.requests = @ + 1]]
              /\ UNCHANGED <<semaphore, scan_state, found_paths, summary,
                             not_found_content>>
         [] r.next = "raise" ->
              /\ CheckPathRaised(t, [rec EXCEPT !.attempt = 0, !.requests = 0,
                                                !.failures = 0])
              /\ UNCHANGED not_found_content
         [] OTHER ->
              /\ CheckPathGot(t, rec, r.status, r.content)
              /\ not_found_content' = IF Is404(r.status) THEN r.content
                                      ELSE not_found_content
              /\ UNCHANGED <<scan_state, summary>>
  /\ UNCHANGED <<config, check, nf_seen, bare_none, index_content, bpc,
                 battempt, brequests, bfailures, bhttp, root_result,
                 nf_fetches>>

\* The request of task t's fetch completes
TaskResponse(t, o) ==
  /\ scan_state = "Probing"
  /\ task[t].pc = "fetch"
  /\ LET r == GetStep(task[t].attempt, o)
         rec == Observe(task[t], o)
     IN
       CASE r.next = "retry" ->
              /\ task' = [task EXCEPT ![t] =
                     [rec EXCEPT !.attempt = @ + 1, !.requests = @ + 1]]
              /\ UNCHANGED <<semaphore, scan_state, found_paths, summary>>
         [] r.next = "raise" ->
              CheckPathRaised(t, [rec EXCEPT !.attempt = 0, !.requests = 0,
                                             !.failures = 0])
         [] OTHER ->
              /\ CheckPathGot(t, rec, r.status, r.content)
              /\ UNCHANGED <<scan_state, summary>>
  /\ UNCHANGED <<config, check, nf_seen, bare_none, index_content, not_found_content, bpc, battempt,
                 brequests, bfailures, bhttp, root_result, nf_fetches>>

\* send_discord_webhook after its post completed (lines 141-147)
WebhookResult(o) ==
  IF o.kind = "response"
    THEN IF o.status = 204 THEN "sent" ELSE "failed"
  ELSE IF o.kind = "RequestError" THEN "error"
  ELSE "raised"

\* A variant of TaskNotified that takes the finding back when the
\* notification was not delivered
TaskNotifiedTakesBack(t, o) ==
  /\ scan_state = "Probing"
  /\ task[t].pc = "notify"
  /\ Exit(t, [task[t] EXCEPT !.notified = WebhookResult(o),
                             !.raised = (WebhookResult(o) = "raised")])
  /\ found_paths' =
       IF WebhookResult(o) = "sent" THEN found_paths
       ELSE SelectSeq(found_paths, LAMBDA u : u # UrlJoin(url, wordlist[t]))
  /\ UNCHANGED <<config, check, nf_seen, bare_none, index_content, not_found_content, bpc, battempt,
                 brequests, bfailures, bhttp, root_result, nf_fetches,
                 scan_state, summary>>

\* The webhook post of task t completes; check_path returns or catches
TaskNotified(t, o) ==
  /\ scan_state = "Probing"
  /\ task[t].pc = "notify"
  /\ LET rec == [task[t] EXCEPT !.notified = WebhookResult(o)] IN
       IF WebhookResult(o) = "raised"
         THEN CheckPathRaised(t, rec)
         ELSE /\ Exit(t, rec)
              /\ UNCHANGED <<scan_state, found_paths, summary>>
  /\ UNCHANGED <<config, check, nf_seen, bare_none, index_content, not_found_content, bpc, battempt,
                 brequests, bfailures, bhttp, root_result, nf_fetches>>

\* A variant of ScanFinish that prints the summary as soon as one task is
\* done, as with asyncio.wait(..., return_when=FIRST_COMPLETED)
ScanFinishAtFirst ==
  /\ scan_state = "Probing"
  /\ task = <<>> \/ \E t \in DOMAIN task : task[t].pc = "done"
  /\ scan_state' = "Done"
  /\ summary' = IF found_paths # <<>>
                  THEN <<"Total found", Len(found_paths)>>
                  ELSE <<"No sensitive files found.">>
  /\ UNCHANGED <<config, check, nf_seen, bare_none, index_content,
                 not_found_content, bpc, battempt, brequests, bfailures, bhttp,
                 root_result, nf_fetches, semaphore, task, found_paths>>

\* gather returns once every task is done; scan() prints the summary
\* (lines 121-126)
ScanFinish ==
  /\ scan_state = "Probing"
  /\ \A t \in DOMAIN task : task[t].pc = "done"
  /\ scan_state' = "Done"
  /\ summary' = IF found_paths # <<>>
                  THEN <<"Total found", Len(found_paths)>>
                  ELSE <<"No sensitive files found.">>
  /\ UNCHANGED <<config, check, nf_seen, bare_none, index_content, not_found_content, bpc, battempt,
                 brequests, bfailures, bhttp, root_result, nf_fetches,
                 semaphore, task, found_paths>>

Next ==
  \/ ScanStart
  \/ \E o \in GetOutcomes : RootResponse(o)
  \/ \E o \in GetOutcomes : NotFoundResponse(o)
  \/ \E t \in DOMAIN task : TaskAcquire(t)
  \/ \E t \in DOMAIN task, o \in GetOutcomes : TaskResponse(t, o)
  \/ \E t \in DOMAIN task, o \in PostOutcomes : TaskNotified(t, o)
  \/ ScanFinish

Spec == Init /\ [][Next]_vars

\* The event loop runs every ready callback, and every request is taken to
\* end (in a response, a failure or an exception): some enabled step is
\* eventually taken.
FairSpec == Spec /\ WF_vars(Next)

(* ============================== claims ================================= *)
Range(f) == { f[i] : i \in DOMAIN f }

\* the probe tasks inside `async with semaphore`
Held == { t \in DOMAIN task : Holding(t) }

\* the success range of the specification
In2xx(status) == status # None /\ Val(status) \in 200..299

\* C1: in every reachable state the number of probe tasks that have acquired
\* the semaphore and not yet released it (fetching, retrying or notifying)
\* is at most the concurrency limit, and the semaphore's value accounts for
\* exactly those tasks.
C1_ConcurrencyBound ==
  semaphore # None =>
    /\ Cardinality(Held) <= threads
    /\ Val(semaphore) = threads - Cardinality(Held)

\* C1 witness: the gate is full (as many holders as the limit allows) while
\* a further task is queued behind it.
C1_Witness ==
  /\ semaphore # None
  /\ threads >= 1
  /\ Cardinality(Held) = threads
  /\ \E t \in DOMAIN task : task[t].pc = "queued"
  /\ \E t \in DOMAIN task : task[t].pc = "notify"

\* C2: whenever a candidate probe has issued a request or a finding has been
\* appended, baseline establishment is over: detect_index_and_404 has
\* returned, no baseline request is in flight, the root fetch returned 200
\* and its body is the index baseline.
C2_BaselineFirst ==
  ((\E t \in DOMAIN task : task[t].requests > 0) \/ found_paths # <<>>) =>
    /\ bpc = "done"
    /\ scan_state \in {"Probing", "Done"}
    /\ root_result # None
    /\ Val(root_result).status = Some(200)
    /\ index_content = Val(root_result).content
    /\ nf_fetches \in 1..2

\* C2 witness: probes have issued requests and a finding is recorded, after a
\* baseline that needed both nonexistent-path fetches.
C2_Witness ==
  /\ \E t \in DOMAIN task : task[t].requests > 0
  /\ found_paths # <<>>
  /\ nf_fetches = 2

\* C3 as stated: once the root fetch has returned, the baseline is
\* established exactly when its status is in 200-299, and the scan is Aborted
\* otherwise.
C3_AsStated ==
  root_result # None =>
    IF In2xx(Val(root_result).status)
      THEN index_content # None /\ scan_state # "Aborted"
      ELSE scan_state = "Aborted"

\* C3 amended: once the root fetch has returned, the baseline is established
\* exactly when its status is 200; for every other status, the other success
\* statuses 201-299 included, and for status none, the scan is Aborted with
\* no index baseline.
C3_Amended ==
  root_result # None =>
    IF Val(root_result).status = Some(200)
      THEN index_content = Val(root_result).content /\ scan_state # "Aborted"
      ELSE index_content = None /\ scan_state = "Aborted"

\* C3 witness: the root fetch returned a success status other than 200 and
\* the scan is Aborted.
C3_Witness ==
  /\ root_result # None
  /\ Val(root_result).status = Some(204)
  /\ scan_state = "Aborted"

\* C4: when baseline establishment fails (detect_index_and_404 returns
\* False), the scan is Aborted with no finding, no probe task, no semaphore,
\* and nothing further ever happens; a scan that failed with an exception has
\* no finding and no probe task either.
C4_AbortedClean ==
  /\ (root_result # None /\ Val(root_result).status # Some(200)) =>
       /\ scan_state = "Aborted"
       /\ found_paths = <<>>
       /\ task = <<>>
       /\ semaphore = None
       /\ ~ENABLED Next
  /\ scan_state = "Failed" => (found_paths = <<>> /\ task = <<>>)

\* C4 witness: the root request failed on all max_retry + 1 attempts, with
\* candidates to probe and a webhook configured, and the scan is Aborted.
C4_Witness ==
  /\ scan_state = "Aborted"
  /\ Val(root_result).status = None
  /\ max_retry >= 1
  /\ brequests = max_retry + 1
  /\ wordlist # <<>>
  /\ webhook_url # None

\* the URL check_path builds for task t (line 91)
TaskUrl(t) == UrlJoin(url, wordlist[t])

\* the tasks whose probe was classified as a confirmed finding
Confirmed == { t \in DOMAIN task : task[t].outcome = "found" }

\* get_page_content has returned to (or raised into) check_path of task t
Fetched(t) == task[t].pc \in {"notify", "done"}

\* C5: a candidate whose every request ended in a transport failure made
\* exactly max_retry + 1 requests, got status none and body none, produced no
\* finding and no notification; and a fetch in progress has so far seen only
\* failures and issued at most max_retry + 1 requests.
C5_AllAttemptsFail ==
  /\ \A t \in DOMAIN task :
       (Fetched(t) /\ task[t].requests > 0 /\ task[t].failures = task[t].requests) =>
         /\ task[t].requests = max_retry + 1
         /\ task[t].status = None
         /\ task[t].content = None
         /\ task[t].pc = "done"
         /\ task[t].outcome # "found"
         /\ task[t].notifies = 0
         /\ task[t].notified = "none"
  /\ \A t \in DOMAIN task :
       task[t].pc = "fetch" =>
         /\ task[t].requests = task[t].failures + 1
         /\ task[t].requests <= max_retry + 1
  /\ Len(found_paths) = Cardinality(Confirmed)

\* C5 witness: with at least one retry allowed, a candidate has failed on all
\* its attempts while another candidate produced a finding.
C5_Witness ==
  /\ max_retry >= 1
  /\ \E t \in DOMAIN task :
       /\ task[t].pc = "done"
       /\ task[t].failures = max_retry + 1
       /\ task[t].requests = task[t].failures
  /\ found_paths # <<>>

\* C6: a fetch stops at the first HTTP response, whatever its status.  On
\* the step in which a candidate's fetch receives a response, the fetch
\* returns that response's status with a body and issues no further request,
\* the requests made being one more than the transport failures before it,
\* which are at most max_retry; and likewise for the root fetch when the
\* response ends the scan.
C6_StopsAtFirstResponse ==
  [][ /\ \A t \in DOMAIN task :
           (task[t].pc = "fetch" /\ task'[t].http # None) =>
             /\ task'[t].pc \in {"notify", "done"}
             /\ task'[t].status = task'[t].http
             /\ task'[t].content # None
             /\ task'[t].attempt = 0
             /\ task[t].requests = task[t].failures + 1
             /\ task[t].failures <= max_retry
      /\ (bpc = "root" /\ bhttp' # None) =>
             /\ scan_state' = "Aborted"
             /\ Val(root_result').status = bhttp'
             /\ brequests' = brequests
             /\ brequests = bfailures + 1
             /\ bfailures <= max_retry
    ]_vars

\* C6 witness: after max_retry >= 1 transport failures the last permitted
\* attempt of the root fetch got a 500, which the fetch returned, having made
\* max_retry + 1 requests; and nothing further happens.
C6_Witness ==
  /\ max_retry >= 1
  /\ bfailures = max_retry
  /\ bhttp = Some(500)
  /\ root_result # None
  /\ Val(root_result).status = Some(500)
  /\ brequests = max_retry + 1
  /\ ~ENABLED Next

\* Jaccard similarity of the token sets of two texts above 0.80
JaccardAbove(a, b) ==
  LET A == Range(a)
      B == Range(b)
  IN (A \cup B) # {} /\ 5 * Cardinality(A \cap B) > 4 * Cardinality(A \cup B)

\* the reference predicate: body duplicates one of the baselines present
RefDuplicate(body) ==
  \/ index_content # None /\ JaccardAbove(body, Val(index_content))
  \/ not_found_content # None /\ JaccardAbove(body, Val(not_found_content))

\* C7: a probe whose fetch has ended is a confirmed finding, with its URL in
\* the findings, if and only if the fetch returned a status in 200-299 and a
\* body that duplicates neither baseline; the findings hold one entry per
\* confirmed probe and nothing else.
C7_FindingIff ==
  /\ \A t \in DOMAIN task :
       Fetched(t) =>
         (task[t].outcome = "found" <=>
            (In2xx(task[t].status) /\ ~RefDuplicate(Val(task[t].content))))
  /\ \A t \in Confirmed : TaskUrl(t) \in Range(found_paths)
  /\ Range(found_paths) = { TaskUrl(t) : t \in Confirmed }
  /\ Len(found_paths) = Cardinality(Confirmed)

\* C7 witness: one probe is a confirmed finding while another got a 2xx
\* whose body duplicates the not-found baseline and was skipped.
C7_Witness ==
  /\ \E t \in DOMAIN task : task[t].outcome = "found"
  /\ \E t \in DOMAIN task :
       /\ task[t].outcome = "skipped"
       /\ In2xx(task[t].status)
       /\ task[t].content = not_found_content
       /\ index_content # not_found_content

\* C8: once an exception was raised inside a probe task, the scan is still
\* probing or done, never failed; while probing, a step remains possible;
\* and when done, every task has ended, every task that did not raise during
\* its fetch was classified, and every confirmed finding is recorded and
\* counted in the summary.
C8_ProbeIsolation ==
  (\E t \in DOMAIN task : task[t].raised) =>
    /\ scan_state \in {"Probing", "Done"}
    /\ scan_state = "Probing" => ENABLED Next
    /\ scan_state = "Done" =>
         /\ \A u \in DOMAIN task :
              /\ task[u].pc = "done"
              /\ (task[u].outcome = "none" => task[u].raised)
              /\ (task[u].outcome = "found" => TaskUrl(u) \in Range(found_paths))
         /\ Len(found_paths) = Cardinality(Confirmed)
         /\ summary = IF Confirmed # {}
                        THEN <<"Total found", Cardinality(Confirmed)>>
                        ELSE <<"No sensitive files found.">>

\* C8 witness: the scan is Done, one task raised during its fetch and
\* another task's finding is recorded.
C8_Witness ==
  /\ scan_state = "Done"
  /\ \E t, u \in DOMAIN task :
       /\ t # u
       /\ task[t].raised
       /\ task[t].outcome = "none"
       /\ task[u].outcome = "found"
       /\ TaskUrl(u) \in Range(found_paths)

\* C9: a finding whose notification failed (a non-204 answer, a transport
\* error or any other exception) is in the findings, and when the scan is
\* Done the reported total counts every confirmed finding.
C9_FindingSurvivesNotify ==
  /\ \A t \in DOMAIN task :
       task[t].notified \in {"failed", "error", "raised"} =>
         /\ task[t].outcome = "found"
         /\ TaskUrl(t) \in Range(found_paths)
  /\ (scan_state = "Done" /\ Confirmed # {}) =>
       /\ summary = <<"Total found", Len(found_paths)>>
       /\ Len(found_paths) = Cardinality(Confirmed)

\* C9 witness: the scan is Done and reported its total after one finding's
\* notification raised an exception and another's got a non-204 answer.
C9_Witness ==
  /\ scan_state = "Done"
  /\ \E t, u \in DOMAIN task :
       /\ task[t].notified = "raised"
       /\ task[u].notified = "failed"
  /\ summary = <<"Total found", 2>>

\* scan() ended with a closing line: the total, the no-findings message,
\* or (when Aborted) the notice that the index page could not be fetched
SummaryEmitted ==
  summary # <<>> /\ summary[1] \in {"Total found", "No sensitive files found.",
                                    "Failed to get index page."}

\* With limits >= 0 scan() reaches its `except` only when a baseline request
\* ended in an exception that is neither a response nor a transport failure
BaselineRequestRaised == scan_state = "Failed"

\* C10 as stated: for any wordlist, any retry limit >= 0 and any concurrency
\* limit >= 0, when every request eventually ends in a response or a
\* transport failure, the scan eventually is Done or Aborted and has emitted
\* its closing summary.
C10_AsStated ==
  (max_retry >= 0 /\ threads >= 0) =>
    <>(\/ scan_state \in {"Done", "Aborted"} /\ SummaryEmitted
       \/ BaselineRequestRaised)

\* C11 as stated: found_paths never holds two entries with the same URL,
\* whatever the wordlist is (repeated lines and distinct path strings that
\* join to the same URL included).
C11_AsStated ==
  \A i, j \in DOMAIN found_paths :
    found_paths[i] = found_paths[j] => i = j

\* A probe task that got past `async with semaphore`
Started(t) == task[t].pc # "queued"

\* C12: a probe task issues requests only while it holds a slot, which it took
\* from a free one; the free slots are the limit minus the slots held by the
\* tasks between their acquire and their exit (by return or by a raised
\* exception), so no slot is released twice or kept; and once every task has
\* completed the free slots equal the concurrency limit again.
C12_SlotReleased ==
  semaphore # None =>
    /\ \A t \in DOMAIN task :
         ~Started(t) => task[t].requests = 0 /\ task[t].status = None
    /\ Val(semaphore) >= 0
    /\ Val(semaphore) + Cardinality(Held) = threads
    /\ (\A t \in DOMAIN task : task[t].pc = "done") => Val(semaphore) = threads

\* C12 witness: with a limit of one slot, both tasks of a two-line wordlist
\* completed, one of them by an exception raised during its fetch, and the
\* slot is free again.
C12_Witness ==
  /\ threads = 1
  /\ Len(task) = 2
  /\ \A t \in DOMAIN task : task[t].pc = "done"
  /\ \E t \in DOMAIN task : task[t].raised
  /\ semaphore = Some(1)

(* ------------- direct calls of the two classifier functions -------------- *)
\* Words the texts of the direct calls are made of
TokenNames == <<"alpha", "beta", "gamma", "delta", "epsilon", "zeta", "eta">>

Tokens == { TokenNames[i] : i \in 1..MaxTokens }

\* One text per set of tokens, the empty text (a string that is empty or all
\* whitespace) included
Texts ==
  { SelectSeq(SubSeq(TokenNames, 1, MaxTokens), LAMBDA w : w \in S) :
      S \in SUBSET Tokens }

\* Response bodies: the texts, and each text with all its words repeated
Bodies == Texts \cup { t \o t : t \in Texts }

\* A baseline field: None, or a text (the empty one included)
OptTexts == {None} \cup { Some(t) : t \in Texts }

\* A call of similarity about to be made
SimilarityOf(text1, text2) ==
  [call |-> "similarity", args |-> <<text1, text2>>, result |-> None]

\* A call of is_similar_to_index_or_404 about to be made on an object with
\* the baseline fields index and not_found
IsSimilarOf(content, index, not_found) ==
  [call |-> "is_similar_to_index_or_404",
   args |-> <<content, index, not_found>>, result |-> None]

\* A scanner object on which one classifier function is about to be called
SimInit ==
  /\ url = <<"app">>
  /\ wordlist = <<>>
  /\ webhook_url = None
  /\ max_retry = 0
  /\ threads = 1
  /\ index_content = None
  /\ not_found_content = None
  /\ scan_state = "Idle"
  /\ bpc = "none"
  /\ battempt = 0
  /\ brequests = 0
  /\ bfailures = 0
  /\ bhttp = None
  /\ root_result = None
  /\ nf_fetches = 0
  /\ nf_seen = <<>>
  /\ bare_none = FALSE
  /\ semaphore = None
  /\ task = <<>>
  /\ found_paths = <<>>
  /\ summary = <<>>
  /\ \/ \E text1, text2 \in Texts :
          check = Some(SimilarityOf(text1, text2))
     \/ \E content \in Bodies, index, not_found \in OptTexts :
          check = Some(IsSimilarOf(content, index, not_found))

\* The pending call is made and its result kept
Return(value) ==
  /\ check' = Some([Val(check) EXCEPT !.result = Some(value)])
  /\ UNCHANGED <<config, scan_state, bpc, battempt, brequests, bfailures,
                 bhttp, root_result, nf_fetches, nf_seen, bare_none,
                 index_content, not_found_content, semaphore, task,
                 found_paths, summary>>

\* similarity(text1, text2), lines 82-87
SimilarityCall ==
  /\ check # None
  /\ Val(check).call = "similarity"
  /\ Val(check).result = None
  /\ Return(similarity(Val(check).args[1], Val(check).args[2]))

\* is_similar_to_index_or_404(content), lines 75-80, on an object whose
\* baseline fields are the second and third argument
IsSimilarCall ==
  /\ check # None
  /\ Val(check).call = "is_similar_to_index_or_404"
  /\ Val(check).result = None
  /\ Return(IsSimilarTo(Val(check).args[1], Val(check).args[2],
                        Val(check).args[3]))

SimNext ==
  \/ SimilarityCall
  \/ IsSimilarCall

SimSpec == SimInit /\ [][SimNext]_vars

\* is_similar_to_index_or_404 was called and returned
DupCalled ==
  /\ check # None
  /\ Val(check).call = "is_similar_to_index_or_404"
  /\ Val(check).result # None

\* similarity was called and returned
SimCalled ==
  /\ check # None
  /\ Val(check).call = "similarity"
  /\ Val(check).result # None

\* The reference predicate of C13 over explicit baselines
RefDuplicateOf(body, index, not_found) ==
  \/ index # None /\ JaccardAbove(body, Val(index))
  \/ not_found # None /\ JaccardAbove(body, Val(not_found))

\* The Jaccard similarity of two texts is exactly 4/5
JaccardIs08(a, b) ==
  LET A == Words(a)
      B == Words(b)
  IN A \cup B # {} /\ 5 * Cardinality(A \cap B) = 4 * Cardinality(A \cup B)

\* C13: is_similar_to_index_or_404 answers as the reference predicate does:
\* true exactly when the index baseline is present and the Jaccard similarity
\* of the body to it exceeds 0.80, or the same holds of the not-found
\* baseline; a similarity of exactly 0.80 to a baseline does not make the
\* body a duplicate of it; and with both baselines absent the answer is false.
C13_IsDuplicateRef ==
  DupCalled =>
    LET body == Val(check).args[1]
        index == Val(check).args[2]
        not_found == Val(check).args[3]
        res == Val(Val(check).result)
    IN /\ res = RefDuplicateOf(body, index, not_found)
       /\ (index = None /\ not_found = None) => res = FALSE
       /\ ( /\ index # None
            /\ JaccardIs08(body, Val(index))
            /\ not_found # None => ~JaccardAbove(body, Val(not_found)) )
          => res = FALSE

\* C13 witness: a body sharing 4 tokens of a union of 5 with the index
\* baseline, the not-found baseline absent, was classified as no duplicate.
C13_Witness ==
  /\ DupCalled
  /\ Val(check).args[2] # None
  /\ Val(check).args[3] = None
  /\ Cardinality(Words(Val(check).args[1]) \cap Words(Val(Val(check).args[2]))) = 4
  /\ Cardinality(Words(Val(check).args[1]) \cup Words(Val(Val(check).args[2]))) = 5
  /\ Val(check).result = Some(FALSE)

\* C14 as stated: similarity(s, s) is 1.0 for every string s, similarity is
\* 0.0 for texts with disjoint non-empty token sets, and similarity(a, b) =
\* similarity(b, a).
C14_AsStated ==
  SimCalled =>
    LET a == Val(check).args[1]
        b == Val(check).args[2]
        r == Val(Val(check).result)
    IN /\ a = b => (r.den > 0 /\ r.num = r.den)
       /\ (Words(a) # {} /\ Words(b) # {} /\ Words(a) \cap Words(b) = {})
            => r.num = 0
       /\ r = similarity(b, a)

\* C14 amended: similarity(s, s) is 1.0 for every string s that holds at
\* least one token and 0 for a string that holds none (the empty union);
\* it is 0.0 for texts with disjoint non-empty token sets; and
\* similarity(a, b) = similarity(b, a).
C14_Amended ==
  SimCalled =>
    LET a == Val(check).args[1]
        b == Val(check).args[2]
        r == Val(Val(check).result)
    IN /\ r.den > 0
       /\ (a = b /\ Words(a) # {}) => r.num = r.den
       /\ (a = b /\ Words(a) = {}) => r.num = 0
       /\ (Words(a) # {} /\ Words(b) # {} /\ Words(a) \cap Words(b) = {})
            => r.num = 0
       /\ r = similarity(b, a)

\* C14 witness: similarity was called on the empty text and itself and
\* returned 0.
C14_Witness ==
  /\ SimCalled
  /\ Val(check).args = <<<<>>, <<>>>>
  /\ Val(Val(check).result).num = 0

\* C15: the second nonexistent-path fetch is issued exactly when the first
\* returned without a 404 answer (another status, or a transport failure on
\* every attempt); not_found_content is the lower-cased body of the first of
\* the two that was answered 404; when neither was, not_found_content is
\* None, the scan does not abort but (for a concurrency limit >= 0) goes on
\* to Probing with one task per wordlist line, and a probe is a finding
\* exactly when its status is 2xx and its body is no duplicate of the index
\* body.
C15_NotFoundBaseline ==
  LET n == Len(nf_seen) IN
  /\ nf_fetches = 2 <=> (n >= 1 /\ nf_seen[1] = None)
  /\ n >= 1 => scan_state # "Aborted"
  /\ n = 0 => not_found_content = None
  /\ (n >= 1 /\ nf_seen[1] # None) =>
       /\ n = 1
       /\ not_found_content = Some(Lower(Val(nf_seen[1])))
  /\ (n = 2 /\ nf_seen[2] # None) =>
       not_found_content = Some(Lower(Val(nf_seen[2])))
  /\ (n = 2 /\ nf_seen[2] = None) =>
       /\ not_found_content = None
       /\ threads >= 0 =>
            /\ scan_state \in {"Probing", "Done"}
            /\ Len(task) = Len(wordlist)
       /\ \A t \in DOMAIN task :
            Fetched(t) =>
              /\ task[t].outcome = "found" <=>
                   /\ In2xx(task[t].status)
                   /\ ~JaccardAbove(Val(task[t].content), Val(index_content))
              /\ task[t].outcome = "found" => TaskUrl(t) \in Range(found_paths)

\* C15 witness: neither nonexistent-path fetch was answered 404, and the scan
\* is Done with one probe recorded as a finding and another, whose body
\* repeats the index page, skipped.
C15_Witness ==
  /\ nf_seen = <<None, None>>
  /\ not_found_content = None
  /\ scan_state = "Done"
  /\ \E t, u \in DOMAIN task :
       /\ task[t].outcome = "found"
       /\ task[u].outcome = "skipped"

\* The URL u lies under the path prefix of the URL base (same host)
Under(base, u) ==
  Len(u) >= Len(base) /\ SubSeq(u, 1, Len(base)) = base

\* C16 as stated: for a target with a non-empty path prefix, the URL a probe
\* task requests, and the URL recorded in a finding, lies under that prefix.
C16_AsStated ==
  url # <<>> =>
    /\ \A t \in DOMAIN task : Started(t) => Under(url, TaskUrl(t))
    /\ \A i \in DOMAIN found_paths : Under(url, found_paths[i])

\* The probes classified as confirmed findings: a 2xx status with a body that
\* is no duplicate of a baseline
Classified ==
  { t \in DOMAIN task :
      /\ In2xx(task[t].status)
      /\ ~RefDuplicate(Val(task[t].content)) }

\* How often the URL u was appended to found_paths
Appended(u) == Cardinality({ i \in DOMAIN found_paths : found_paths[i] = u })

\* C17: in every state, whatever the order in which the tasks took their
\* steps, found_paths holds one entry per probe classified as a confirmed
\* finding, none lost and none added twice; the scan is Done only once every
\* dispatched task has completed; and the total it reports is the number of
\* probes classified as confirmed findings (the no-findings message when
\* that is zero).
C17_NoLostFinding ==
  /\ Len(found_paths) = Cardinality(Classified)
  /\ \A t \in DOMAIN task :
       Appended(TaskUrl(t)) =
         Cardinality({ u \in Classified : TaskUrl(u) = TaskUrl(t) })
  /\ scan_state = "Done" =>
       /\ Len(task) = Len(wordlist)
       /\ \A t \in DOMAIN task : task[t].pc = "done"
       /\ summary = IF Classified # {}
                      THEN <<"Total found", Cardinality(Classified)>>
                      ELSE <<"No sensitive files found.">>

\* C17 witness: with two slots, the first task appended its finding and is
\* suspended in its notification while the second task appended its own,
\* was notified and completed; both entries are in found_paths.
C17_Witness ==
  /\ scan_state = "Probing"
  /\ threads = 2
  /\ Len(task) = 2
  /\ task[1].pc = "notify"
  /\ task[2].pc = "done"
  /\ task[2].notified = "sent"
  /\ Classified = {1, 2}
  /\ Len(found_paths) = 2

\* The tasks whose notification call is in flight
Notifying == { t \in DOMAIN task : task[t].pc = "notify" }

\* C18: with a sink configured, a probe makes one notification call once it
\* is classified as a confirmed finding, and no probe makes any otherwise
\* (no sink; or the probe was skipped, answered with a non-2xx status, left
\* unresolved or has not returned yet); while the call is in flight the
\* finding is already in found_paths and the task still occupies its slot;
\* and a call that ended was the one call of a confirmed finding.
C18_NotifyOncePerFinding ==
  /\ \A t \in DOMAIN task :
       /\ task[t].notifies =
            IF webhook_url # None /\ t \in Classified THEN 1 ELSE 0
       /\ task[t].outcome \in {"skipped", "notfound", "unresolved", "none"} =>
            /\ task[t].notifies = 0
            /\ task[t].notified = "none"
       /\ task[t].notified # "none" =>
            /\ task[t].notifies = 1
            /\ task[t].pc = "done"
       /\ t \in Notifying =>
            /\ t \in Classified
            /\ webhook_url # None
            /\ Appended(TaskUrl(t)) >= 1
  /\ semaphore # None => Val(semaphore) + Cardinality(Notifying) <= threads

\* C18 witness: with a limit of two, the notification calls of two
\* confirmed findings are in flight at the same time.
C18_Witness ==
  /\ threads = 2
  /\ Cardinality(Notifying) = 2
  /\ \A t \in Notifying : task[t].notifies = 1 /\ task[t].outcome = "found"

\* detect_index_and_404 returned True: the probes are running or over
BaselineEstablished == scan_state \in {"Probing", "Done"}

\* C19: once the baseline is established, no step of a probe task (request,
\* retry, classification, append, notification, exit) and no later step of
\* the scan changes index_content or not_found_content.
C19_BaselineReadOnly ==
  [][ BaselineEstablished =>
        /\ index_content' = index_content
        /\ not_found_content' = not_found_content ]_vars

\* C19 witness: the scan is Done with both baseline bodies set, after one
\* probe was answered 404, another was recorded as a finding and its
\* notification ended.
C19_Witness ==
  /\ scan_state = "Done"
  /\ index_content # None
  /\ not_found_content # None
  /\ \E t, u \in DOMAIN task :
       /\ task[t].status = Some(404)
       /\ task[u].outcome = "found"
       /\ task[u].notified # "none"

\* The results of the get_page_content calls that returned a pair: that of
\* the root fetch, and that of each probe task that got one
FetchResults ==
  (IF root_result # None THEN {Val(root_result)} ELSE {})
  \cup
  { [status |-> task[t].status, content |-> task[t].content] :
      t \in { u \in DOMAIN task : task[u].outcome # "none" } }

\* C20 as stated: for any retry limit and any outcomes of the requests,
\* every call of get_page_content that returns gives a (status, content)
\* pair, whose status is None exactly when its content is None; and the
\* pair (None, None) is returned only after the last permitted attempt,
\* attempt max_retry + 1, failed in transport.
C20_AsStated ==
  /\ ~bare_none
  /\ \A r \in FetchResults : r.status = None <=> r.content = None
  /\ (root_result # None /\ Val(root_result).status = None) =>
       /\ bhttp = None
       /\ bfailures = max_retry + 1
       /\ brequests = max_retry + 1
  /\ \A t \in DOMAIN task :
       (task[t].outcome # "none" /\ task[t].status = None) =>
         /\ task[t].http = None
         /\ task[t].failures = max_retry + 1
         /\ task[t].requests = max_retry + 1
=============================================================================
